---- MODULE Spec2Model ----
(***************************************************************************)
(* Model of the payment form of the Stellar wallet front-end:              *)
(* src/components/SendPayment.jsx (the form state, validateInputs and the  *)
(* asynchronous handleSendPayment) under src/pages/Index.tsx (publicKey    *)
(* and balanceRefreshKey).                                                 *)
(*                                                                         *)
(* Strings the code inspects (destination, amount, publicKey) are          *)
(* sequences of one-character strings, so that trim, parseFloat and the    *)
(* address check are computed character by character.  Messages and        *)
(* opaque payloads (envelopes, hashes) are one-element sequences holding   *)
(* the whole text, the empty string being << >> in both cases.             *)
(***************************************************************************)
EXTENDS Integers, Sequences, FiniteSets, TLC

VARIABLES
    publicKey,          \* Index: connected key, or Null
    balanceRefreshKey,  \* Index: counter bumped by handleTransactionComplete
    destination,        \* SendPayment state
    amount,             \* SendPayment state
    isLoading,          \* SendPayment state
    error,              \* SendPayment state: message or Null
    success,            \* SendPayment state: [hash, explorerUrl] or Null
    step,               \* SendPayment state: "input" | "signing" | "submitting"
    flows,              \* the handleSendPayment invocations suspended at an await
    last,               \* history: the invocation that ended in the last step
    prefilledDestination, \* SendPayment prop: an address, or Undefined
    walletConnect,      \* WalletConnect state: isLoading, error,
                        \* freighterInstalled, networkCorrect
    connects,           \* the checkFreighterStatus and connectWallet
                        \* invocations suspended at an await
    lastConnect,        \* history: the connectWallet invocation that ended
                        \* in the last step
    balanceCard,        \* Balance state: balance, isLoading, error
                        \* (lastUpdated, a time stamp, is left out)
    fetches             \* the fetchBalance invocations awaiting getBalance

\* the state of Index and SendPayment
paymentVars == << publicKey, balanceRefreshKey, destination, amount, isLoading,
                  error, success, step, flows, last >>

\* the state of WalletConnect
walletVars == << walletConnect, connects, lastConnect >>

\* the state of Balance
balanceVars == << balanceCard, fetches >>

vars == << paymentVars, prefilledDestination, walletVars, balanceVars >>

\* JavaScript null and undefined where a string is expected, and null where
\* an object is expected.
Null == <<"null">>
Undefined == <<"undefined">>
NullObject == [null |-> TRUE]

-----------------------------------------------------------------------------
(* Bounds of the model.                                                    *)

\* Payments that may succeed in one behaviour (caps balanceRefreshKey).
MaxPayments == 2

\* Invocations of handleSendPayment that may be suspended at the same time.
MaxInFlight == 2

\* the getBalance requests that can be pending at once
MaxFetches == 3

-----------------------------------------------------------------------------
(* Strings.                                                                *)

WhiteSpace == {" ", "\t"}

RECURSIVE TrimStart(_)
TrimStart(s) ==
    IF s # <<>> /\ Head(s) \in WhiteSpace THEN TrimStart(Tail(s)) ELSE s

RECURSIVE TrimEnd(_)
TrimEnd(s) ==
    IF s # <<>> /\ s[Len(s)] \in WhiteSpace
    THEN TrimEnd(SubSeq(s, 1, Len(s) - 1))
    ELSE s

\* String.prototype.trim
Trim(s) == TrimEnd(TrimStart(s))

\* n copies of the character c
RECURSIVE Repeat(_, _)
Repeat(c, n) == IF n = 0 THEN <<>> ELSE <<c>> \o Repeat(c, n - 1)

\* s starts with the characters of p
StartsWith(s, p) == Len(s) >= Len(p) /\ SubSeq(s, 1, Len(p)) = p

-----------------------------------------------------------------------------
(* parseFloat.  The result is Number.NaN, an infinity, or the exact        *)
(* decimal value of the longest prefix that is a StrDecimalLiteral:        *)
(* (-1)^neg * 0.d1 d2 ... dn * 10^exp with d1 # 0 and dn # 0 (digits = <<>>*)
(* for zero).  The rounding of that value to a double is applied where the *)
(* code compares the number (NumberLeqZero, NumberLtMinimum).              *)

DigitChars == <<"0", "1", "2", "3", "4", "5", "6", "7", "8", "9">>

IsDigit(c) == \E i \in 1..10 : DigitChars[i] = c

DigitValue(c) == (CHOOSE i \in 1..10 : DigitChars[i] = c) - 1

\* the longest prefix of s made of digits
RECURSIVE DigitPrefix(_)
DigitPrefix(s) ==
    IF s # <<>> /\ IsDigit(Head(s))
    THEN <<Head(s)>> \o DigitPrefix(Tail(s))
    ELSE <<>>

Drop(s, n) == SubSeq(s, n + 1, Len(s))

RECURSIVE StripLeadingZeros(_)
StripLeadingZeros(d) ==
    IF d # <<>> /\ Head(d) = 0 THEN StripLeadingZeros(Tail(d)) ELSE d

RECURSIVE StripTrailingZeros(_)
StripTrailingZeros(d) ==
    IF d # <<>> /\ d[Len(d)] = 0
    THEN StripTrailingZeros(SubSeq(d, 1, Len(d) - 1))
    ELSE d

\* the value of a sequence of digit characters, most significant first
RECURSIVE DigitsToNat(_)
DigitsToNat(s) ==
    IF s = <<>> THEN 0
    ELSE 10 * DigitsToNat(SubSeq(s, 1, Len(s) - 1)) + DigitValue(s[Len(s)])

NaN == [kind |-> "nan"]

InfinityLiteral == <<"I", "n", "f", "i", "n", "i", "t", "y">>

\* ExponentPart of a StrDecimalLiteral at the front of s: e or E, an
\* optional sign and at least one digit; 0 when s does not start with one.
ExponentOf(s) ==
    IF s = <<>> \/ Head(s) \notin {"e", "E"} THEN 0
    ELSE LET r      == Tail(s)
             signed == r # <<>> /\ Head(r) \in {"+", "-"}
             ds     == DigitPrefix(IF signed THEN Tail(r) ELSE r)
         IN  IF ds = <<>> THEN 0
             ELSE IF signed /\ Head(r) = "-" THEN 0 - DigitsToNat(ds)
             ELSE DigitsToNat(ds)

\* parseFloat that drops the sign
parseFloat_IgnoresSign(s) ==
    LET t       == TrimStart(s)
        signed  == t # <<>> /\ Head(t) \in {"+", "-"}
        u       == IF signed THEN Tail(t) ELSE t
        intPart == DigitPrefix(u)
        r1      == Drop(u, Len(intPart))
        hasDot  == r1 # <<>> /\ Head(r1) = "."
        fracPart == IF hasDot THEN DigitPrefix(Tail(r1)) ELSE <<>>
        r2      == IF hasDot THEN Drop(r1, 1 + Len(fracPart)) ELSE r1
        all     == [i \in 1..(Len(intPart) + Len(fracPart)) |->
                      DigitValue((intPart \o fracPart)[i])]
        lead    == StripLeadingZeros(all)
        digits  == StripTrailingZeros(lead)
    IN  IF StartsWith(u, InfinityLiteral) THEN [kind |-> "inf", neg |-> FALSE]
        ELSE IF intPart = <<>> /\ fracPart = <<>> THEN NaN
        ELSE [kind |-> "num", neg |-> FALSE, digits |-> digits,
              exp |-> IF digits = <<>> THEN 0
                      ELSE Len(intPart) - (Len(all) - Len(lead)) + ExponentOf(r2)]

parseFloat(s) ==
    LET t       == TrimStart(s)
        signed  == t # <<>> /\ Head(t) \in {"+", "-"}
        neg     == signed /\ Head(t) = "-"
        u       == IF signed THEN Tail(t) ELSE t
        intPart == DigitPrefix(u)
        r1      == Drop(u, Len(intPart))
        hasDot  == r1 # <<>> /\ Head(r1) = "."
        fracPart == IF hasDot THEN DigitPrefix(Tail(r1)) ELSE <<>>
        r2      == IF hasDot THEN Drop(r1, 1 + Len(fracPart)) ELSE r1
        all     == [i \in 1..(Len(intPart) + Len(fracPart)) |->
                      DigitValue((intPart \o fracPart)[i])]
        lead    == StripLeadingZeros(all)
        digits  == StripTrailingZeros(lead)
    IN  IF StartsWith(u, InfinityLiteral) THEN [kind |-> "inf", neg |-> neg]
        ELSE IF intPart = <<>> /\ fracPart = <<>> THEN NaN
        ELSE [kind |-> "num", neg |-> neg, digits |-> digits,
              exp |-> IF digits = <<>> THEN 0
                      ELSE Len(intPart) - (Len(all) - Len(lead)) + ExponentOf(r2)]

isNaN(n) == n.kind = "nan"

\* 0.a1 a2 ... < 0.b1 b2 ... for digit sequences (missing digits are 0)
RECURSIVE DigitsLess(_, _)
DigitsLess(a, b) ==
    IF b = <<>> THEN FALSE
    ELSE IF a = <<>> THEN \E i \in 1..Len(b) : b[i] # 0
    ELSE IF Head(a) # Head(b) THEN Head(a) < Head(b)
    ELSE DigitsLess(Tail(a), Tail(b))

\* 0.digits * 10^exp < 0.bd * 10^be, for digits and bd that start with a
\* non-zero digit
MagnitudeLess(digits, exp, bd, be) ==
    \/ exp < be
    \/ exp = be /\ DigitsLess(digits, bd)

\* (0x1.ad7f29abcaf47p-24 + 0x1.ad7f29abcaf48p-24) / 2 = 0.d1 d2 ... * 10^MinHalfwayExp
MinHalfwayDigits ==
    <<
       9,9,9,9,9,9,9,9,9,9,9,9,9,9,9,8,8,8,5,7,3,6,6,2,8,2,1,6,4,4,0,4,4,6,9,5,9,0,1,2,
       4,3,3,5,8,0,9,3,7,7,9,5,3,4,1,0,1,4,8,6,2,0,6,0,5,4,6,8,7,5 >>

MinHalfwayExp == -7

\* 2^-1075 = 0.d1 d2 ... * 10^ZeroHalfwayExp
ZeroHalfwayDigits ==
    <<
       2,4,7,0,3,2,8,2,2,9,2,0,6,2,3,2,7,2,0,8,8,2,8,4,3,9,6,4,3,4,1,1,0,6,8,6,1,8,2,5,
       2,9,9,0,1,3,0,7,1,6,2,3,8,2,2,1,2,7,9,2,8,4,1,2,5,0,3,3,7,7,5,3,6,3,5,1,0,4,3,7,
       5,9,3,2,6,4,9,9,1,8,1,8,0,8,1,7,9,9,6,1,8,9,8,9,8,2,8,2,3,4,7,7,2,2,8,5,8,8,6,5,
       4,6,3,3,2,8,3,5,5,1,7,7,9,6,9,8,9,8,1,9,9,3,8,7,3,9,8,0,0,5,3,9,0,9,3,9,0,6,3,1,
       5,0,3,5,6,5,9,5,1,5,5,7,0,2,2,6,3,9,2,2,9,0,8,5,8,3,9,2,4,4,9,1,0,5,1,8,4,4,3,5,
       9,3,1,8,0,2,8,4,9,9,3,6,5,3,6,1,5,2,5,0,0,3,1,9,3,7,0,4,5,7,6,7,8,2,4,9,2,1,9,3,
       6,5,6,2,3,6,6,9,8,6,3,6,5,8,4,8,0,7,5,7,0,0,1,5,8,5,7,6,9,2,6,9,9,0,3,7,0,6,3,1,
       1,9,2,8,2,7,9,5,5,8,5,5,1,3,3,2,9,2,7,8,3,4,3,3,8,4,0,9,3,5,1,9,7,8,0,1,5,5,3,1,
       2,4,6,5,9,7,2,6,3,5,7,9,5,7,4,6,2,2,7,6,6,4,6,5,2,7,2,8,2,7,2,2,0,0,5,6,3,7,4,0,
       0,6,4,8,5,4,9,9,9,7,7,0,9,6,5,9,9,4,7,0,4,5,4,0,2,0,8,2,8,1,6,6,2,2,6,2,3,7,8,5,
       7,3,9,3,4,5,0,7,3,6,3,3,9,0,0,7,9,6,7,7,6,1,9,3,0,5,7,7,5,0,6,7,4,0,1,7,6,3,2,4,
       6,7,3,6,0,0,9,6,8,9,5,1,3,4,0,5,3,5,5,3,7,4,5,8,5,1,6,6,6,1,1,3,4,2,2,3,7,6,6,6,
       7,8,6,0,4,1,6,2,1,5,9,6,8,0,4,6,1,9,1,4,4,6,7,2,9,1,8,4,0,3,0,0,5,3,0,0,5,7,5,3,
       0,8,4,9,0,4,8,7,6,5,3,9,1,7,1,1,3,8,6,5,9,1,6,4,6,2,3,9,5,2,4,9,1,2,6,2,3,6,5,3,
       8,8,1,8,7,9,6,3,6,2,3,9,3,7,3,2,8,0,4,2,3,8,9,1,0,1,8,6,7,2,3,4,8,4,9,7,6,6,8,2,
       3,5,0,8,9,8,6,3,3,8,8,5,8,7,9,2,5,6,2,8,3,0,2,7,5,5,9,9,5,6,5,7,5,2,4,4,5,5,5,0,
       7,2,5,5,1,8,9,3,1,3,6,9,0,8,3,6,2,5,4,7,7,9,1,8,6,9,4,8,6,6,7,9,9,4,9,6,8,3,2,4,
       0,4,9,7,0,5,8,2,1,0,2,8,5,1,3,1,8,5,4,5,1,3,9,6,2,1,3,8,3,7,7,2,2,8,2,6,1,4,5,4,
       3,7,6,9,3,4,1,2,5,3,2,0,9,8,5,9,1,3,2,7,6,6,7,2,3,6,3,2,8,1,2,5 >>

ZeroHalfwayExp == -323

\* The double nearest to a positive decimal is 0 exactly when the decimal is
\* at most 2^-1075, half the least subnormal (a tie goes to the even
\* neighbour, 0).
RoundsToZero(n) ==
    \/ n.digits = <<>>
    \/ ~ MagnitudeLess(ZeroHalfwayDigits, ZeroHalfwayExp, n.digits, n.exp)

\* numAmount <= 0
NumberLeqZero(n) ==
    /\ n.kind # "nan"
    /\ \/ n.neg
       \/ n.kind = "num" /\ RoundsToZero(n)

\* numAmount < 0.0000001.  The literal 0.0000001 is the double
\* 0x1.ad7f29abcaf48p-24; a decimal rounds to a double below it exactly when
\* it is below the halfway point to the preceding double (a tie goes to the
\* even neighbour, the literal's double).
NumberLtMinimum(n) ==
    /\ n.kind # "nan"
    /\ \/ n.neg
       \/ /\ n.kind = "num"
          /\ \/ n.digits = <<>>
             \/ MagnitudeLess(n.digits, n.exp, MinHalfwayDigits, MinHalfwayExp)

-----------------------------------------------------------------------------
(* isValidPublicKey of stellarClient: a G... account identifier of 56      *)
(* characters with a valid checksum.  The checksum is abstracted to one    *)
(* check character over the first 55.                                      *)

KeyLen == 56

Base32Chars == {"A", "B", "G"}

RECURSIVE CountOf(_, _)
CountOf(c, s) ==
    IF s = <<>> THEN 0
    ELSE (IF Head(s) = c THEN 1 ELSE 0) + CountOf(c, Tail(s))

CheckChar(payload) == IF CountOf("B", payload) % 2 = 0 THEN "A" ELSE "B"

isValidPublicKey(s) ==
    /\ Len(s) = KeyLen
    /\ \A i \in 1..Len(s) : s[i] \in Base32Chars
    /\ s[1] = "G"
    /\ s[KeyLen] = CheckChar(SubSeq(s, 1, KeyLen - 1))

getExplorerUrl(hash) == <<"explorer/tx/">> \o hash

-----------------------------------------------------------------------------
(* validateInputs: the message of the Error it throws, or ReturnsTrue.     *)

ReturnsTrue == <<"true">>

MsgDestinationRequired == <<"Destination address is required">>
MsgInvalidAddress ==
    <<"Invalid Stellar address format. Must start with 'G' and be 56 characters.">>
MsgSelfSend == <<"Cannot send to your own address">>
MsgAmountRequired == <<"Amount is required">>
MsgNotPositive == <<"Amount must be a positive number">>
MsgBelowMinimum == <<"Amount is below minimum (0.0000001 XLM)">>
MsgSigningCancelled == <<"Transaction signing was cancelled">>
MsgFallback == <<"Transaction failed. Please try again.">>

\* validateInputs that checks the amount before the destination
validateInputs_AmountFirst(dest, amt, pk) ==
    LET numAmount == parseFloat(amt)
    IN  IF Trim(amt) = <<>> THEN MsgAmountRequired
        ELSE IF isNaN(numAmount) \/ NumberLeqZero(numAmount) THEN MsgNotPositive
        ELSE IF NumberLtMinimum(numAmount) THEN MsgBelowMinimum
        ELSE IF Trim(dest) = <<>> THEN MsgDestinationRequired
        ELSE IF ~ isValidPublicKey(Trim(dest)) THEN MsgInvalidAddress
        ELSE IF Trim(dest) = pk THEN MsgSelfSend
        ELSE ReturnsTrue

\* validateInputs without the check for sending to oneself
validateInputs_NoSelfCheck(dest, amt, pk) ==
    LET numAmount == parseFloat(amt)
    IN  IF Trim(dest) = <<>> THEN MsgDestinationRequired
        ELSE IF ~ isValidPublicKey(Trim(dest)) THEN MsgInvalidAddress
        ELSE IF Trim(amt) = <<>> THEN MsgAmountRequired
        ELSE IF isNaN(numAmount) \/ NumberLeqZero(numAmount) THEN MsgNotPositive
        ELSE IF NumberLtMinimum(numAmount) THEN MsgBelowMinimum
        ELSE ReturnsTrue

\* validateInputs without the address format check
validateInputs_NoFormatCheck(dest, amt, pk) ==
    LET numAmount == parseFloat(amt)
    IN  IF Trim(dest) = <<>> THEN MsgDestinationRequired
        ELSE IF Trim(dest) = pk THEN MsgSelfSend
        ELSE IF Trim(amt) = <<>> THEN MsgAmountRequired
        ELSE IF isNaN(numAmount) \/ NumberLeqZero(numAmount) THEN MsgNotPositive
        ELSE IF NumberLtMinimum(numAmount) THEN MsgBelowMinimum
        ELSE ReturnsTrue

validateInputs(dest, amt, pk) ==
    LET numAmount == parseFloat(amt)
    IN  IF Trim(dest) = <<>> THEN MsgDestinationRequired
        ELSE IF ~ isValidPublicKey(Trim(dest)) THEN MsgInvalidAddress
        ELSE IF Trim(dest) = pk THEN MsgSelfSend
        ELSE IF Trim(amt) = <<>> THEN MsgAmountRequired
        ELSE IF isNaN(numAmount) \/ NumberLeqZero(numAmount) THEN MsgNotPositive
        ELSE IF NumberLtMinimum(numAmount) THEN MsgBelowMinimum
        ELSE ReturnsTrue

\* err.message without the fallback text
ErrorText_NoFallback(message) == message

\* err.message || "Transaction failed. Please try again."
ErrorText(message) ==
    IF message \in {<<>>, Undefined, Null} THEN MsgFallback ELSE message

-----------------------------------------------------------------------------
(* Inputs.                                                                 *)

Key1 == <<"G">> \o Repeat("A", KeyLen - 1)
Key2 == <<"G">> \o Repeat("B", KeyLen - 2) \o <<"A">>

\* what the wallet extension can hand to handleConnect
WalletKeys == {Key1, Key2}

\* what the user can type into the destination field
DestinationInputs ==
    { <<>>,
      <<" ", " ">>,
      Key1,
      Key2,
      <<" ">> \o Key1 \o <<" ">>,
      <<" ">> \o Key2,
      <<"G", "A", "B">>,
      Repeat("A", KeyLen),
      <<"G">> \o Repeat("A", KeyLen - 2) \o <<"B">> }

\* what the amount field (an input of type number) can hold: the empty
\* string or a valid floating-point number
AmountInputs ==
    { <<>>,
      <<"0">>,
      <<"-", "1">>,
      <<"-", "0", ".", "5">>,
      <<"1", ".", "5">>,
      <<"0", ".", "0", "0", "0", "0", "0", "0", "1">>,
      <<"0", ".", "0", "0", "0", "0", "0", "0", "0", "5">>,
      <<"1", "e", "-", "8">>,
      <<"0", ".", "1", "2", "3", "4", "5", "6", "7", "8">>,
      <<"0", ".">> \o Repeat("0", 7) \o Repeat("9", 16),
      <<"0", ".">> \o Repeat("0", 23) \o <<"1", "e", "-", "4", "0", "0">> }

\* what the collaborators can answer
BuildErrors == { <<"Account not found">>, <<>> }
Envelopes == { <<"AAAA-unsigned-xdr">> }
SignedEnvelopes == { <<"AAAA-signed-xdr">> }
NoSignature == { Null, Undefined, <<>> }
SignErrors == { <<"User declined access">> }
Hashes == { <<"abc123">> }
SubmitResults == [hash : Hashes \cup {Undefined}] \cup {NullObject}
SubmitErrors == { <<"tx_insufficient_balance">>, <<"Network Error">>, Undefined }
MsgNoResult == <<"Cannot read properties of null (reading 'hash')">>

-----------------------------------------------------------------------------
(* State.  last is NoFlow unless the step just taken ended an invocation   *)
(* of handleSendPayment; then it records how that invocation ended.        *)

NoFlow ==
    [outcome |-> "none", publicKey |-> Null, destination |-> <<>>,
     amount |-> <<>>, build |-> 0, sign |-> 0, submit |-> 0, hash |-> Null]

\* no invocation of connectWallet ended in the step just taken
NoConnect == [outcome |-> "none", silent |-> FALSE, pubKey |-> Null,
              network |-> "none"]

\* the invocation of checkFreighterStatus made by the effect that runs once
\* WalletConnect is mounted, suspended at its first await
checkFreighterStatus == [pc |-> "isConnected", silent |-> TRUE, pubKey |-> Null]

\* the state once Index and its children are mounted and their effects have
\* run: Balance's effect takes the branch of a missing publicKey
Init ==
    /\ publicKey = Null
    /\ balanceRefreshKey = 0
    /\ destination = <<>>
    /\ amount = <<>>
    /\ isLoading = FALSE
    /\ error = Null
    /\ success = NullObject
    /\ step = "input"
    /\ flows = <<>>
    /\ last = NoFlow
    /\ prefilledDestination = Undefined
    /\ walletConnect = [isLoading |-> FALSE, error |-> Null,
                        freighterInstalled |-> "null", networkCorrect |-> TRUE]
    /\ connects = << checkFreighterStatus >>
    /\ lastConnect = NoConnect
    /\ balanceCard = [balance |-> Null, isLoading |-> FALSE, error |-> Null]
    /\ fetches = <<>>

Remove(s, i) == SubSeq(s, 1, i - 1) \o SubSeq(s, i + 1, Len(s))

-----------------------------------------------------------------------------
(* Index.                                                                  *)

\* handleConnect(pubKey), called by WalletConnect once a key was retrieved:
\* the handler sets the key whatever the key was before
handleConnect(pubKey) ==
    /\ publicKey' = pubKey
    /\ last' = NoFlow
    /\ UNCHANGED << balanceRefreshKey, destination, amount, isLoading, error,
                    success, step, flows >>

\* handleDisconnect(), the Disconnect button of WalletConnect
handleDisconnect ==
    /\ publicKey # Null
    /\ publicKey' = Null
    /\ last' = NoFlow
    /\ UNCHANGED << balanceRefreshKey, destination, amount, isLoading, error,
                    success, step, flows >>

\* a notification that is delivered twice
handleTransactionComplete_Twice(key) == key + 2

\* handleTransactionComplete()
handleTransactionComplete(key) == key + 1

-----------------------------------------------------------------------------
(* SendPayment.                                                            *)

\* the form is rendered only while a wallet is connected
FormShown == publicKey # Null

\* the inputs are disabled while isLoading
InputsEnabled == FormShown /\ ~ isLoading

\* a submit button that stays enabled while isLoading
SubmitEnabled_IgnoresLoading ==
    FormShown /\ ~ (destination = <<>> \/ amount = <<>>)

\* the submit button: disabled={isLoading || !destination || !amount}
SubmitEnabled ==
    FormShown /\ ~ (isLoading \/ destination = <<>> \/ amount = <<>>)

\* onChange of the destination input
setDestination(value) ==
    /\ InputsEnabled
    /\ destination' = value
    /\ last' = NoFlow
    /\ UNCHANGED << publicKey, balanceRefreshKey, amount, isLoading, error,
                    success, step, flows >>

\* onChange of the amount input
setAmount(value) ==
    /\ InputsEnabled
    /\ amount' = value
    /\ last' = NoFlow
    /\ UNCHANGED << publicKey, balanceRefreshKey, destination, isLoading, error,
                    success, step, flows >>

\* getStepLabel(), the text of the submit button while isLoading
getStepLabel(s) ==
    CASE s = "signing" -> "Waiting for signature..."
      [] s = "submitting" -> "Submitting transaction..."
      [] OTHER -> "Processing..."

\* the summary of invocation f ending with the given outcome
Ended(f, outcome, hash) ==
    [outcome |-> outcome, publicKey |-> f.publicKey,
     destination |-> f.destination, amount |-> f.amount,
     build |-> f.build, sign |-> f.sign, submit |-> f.submit, hash |-> hash]

\* handleSendPayment with a step of its own for the build
handleSendPayment_BuildingStep ==
    /\ SubmitEnabled
    /\ Len(flows) < MaxInFlight
    /\ balanceRefreshKey < MaxPayments
    /\ LET thrown == validateInputs(destination, amount, publicKey)
           f == [pc |-> "build", publicKey |-> publicKey,
                 destination |-> destination, amount |-> amount,
                 buildArgs |-> << publicKey, Trim(destination), Trim(amount) >>,
                 transactionXDR |-> Undefined, accountToSign |-> Undefined,
                 signedXDR |-> Undefined,
                 build |-> 0, sign |-> 0, submit |-> 0]
       IN  /\ success' = NullObject
           /\ IF thrown # ReturnsTrue
              THEN /\ error' = ErrorText(thrown)
                   /\ isLoading' = FALSE
                   /\ step' = "input"
                   /\ flows' = flows
                   /\ last' = Ended(f, "validation", Null)
              ELSE /\ error' = Null
                   /\ isLoading' = TRUE
                   /\ step' = "building"
                   /\ flows' = Append(flows, [f EXCEPT !.build = 1])
                   /\ last' = NoFlow
    /\ UNCHANGED << publicKey, balanceRefreshKey, destination, amount >>

\* handleSendPayment without setError(null) at its start
handleSendPayment_KeepsError ==
    /\ SubmitEnabled
    /\ Len(flows) < MaxInFlight
    /\ balanceRefreshKey < MaxPayments
    /\ LET thrown == validateInputs(destination, amount, publicKey)
           f == [pc |-> "build", publicKey |-> publicKey,
                 destination |-> destination, amount |-> amount,
                 buildArgs |-> << publicKey, Trim(destination), Trim(amount) >>,
                 transactionXDR |-> Undefined, accountToSign |-> Undefined,
                 signedXDR |-> Undefined,
                 build |-> 0, sign |-> 0, submit |-> 0]
       IN  /\ success' = NullObject
           /\ IF thrown # ReturnsTrue
              THEN /\ error' = ErrorText(thrown)
                   /\ isLoading' = FALSE
                   /\ step' = "input"
                   /\ flows' = flows
                   /\ last' = Ended(f, "validation", Null)
              ELSE /\ error' = error
                   /\ isLoading' = TRUE
                   /\ step' = "signing"
                   /\ flows' = Append(flows, [f EXCEPT !.build = 1])
                   /\ last' = NoFlow
    /\ UNCHANGED << publicKey, balanceRefreshKey, destination, amount >>

\* handleSendPayment without setSuccess(null) at its start
handleSendPayment_KeepsSuccess ==
    /\ SubmitEnabled
    /\ Len(flows) < MaxInFlight
    /\ balanceRefreshKey < MaxPayments
    /\ LET thrown == validateInputs(destination, amount, publicKey)
           f == [pc |-> "build", publicKey |-> publicKey,
                 destination |-> destination, amount |-> amount,
                 buildArgs |-> << publicKey, Trim(destination), Trim(amount) >>,
                 transactionXDR |-> Undefined, accountToSign |-> Undefined,
                 signedXDR |-> Undefined,
                 build |-> 0, sign |-> 0, submit |-> 0]
       IN  IF thrown # ReturnsTrue
           THEN /\ error' = ErrorText(thrown)
                /\ isLoading' = FALSE
                /\ step' = "input"
                /\ flows' = flows
                /\ last' = Ended(f, "validation", Null)
           ELSE /\ error' = Null
                /\ isLoading' = TRUE
                /\ step' = "signing"
                /\ flows' = Append(flows, [f EXCEPT !.build = 1])
                /\ last' = NoFlow
    /\ UNCHANGED << publicKey, balanceRefreshKey, destination, amount, success >>

\* handleSendPayment from its start to its first await, or to its end when
\* validateInputs throws.  The submit event reaches it whenever the button
\* is enabled: the min and step attributes of the amount input are left to
\* the browser and do not restrict what the handler is called with.
handleSendPayment ==
    /\ SubmitEnabled
    /\ Len(flows) < MaxInFlight
    /\ balanceRefreshKey < MaxPayments
    /\ LET thrown == validateInputs(destination, amount, publicKey)
           f == [pc |-> "build", publicKey |-> publicKey,
                 destination |-> destination, amount |-> amount,
                 buildArgs |-> << publicKey, Trim(destination), Trim(amount) >>,
                 transactionXDR |-> Undefined, accountToSign |-> Undefined,
                 signedXDR |-> Undefined,
                 build |-> 0, sign |-> 0, submit |-> 0]
       IN  /\ success' = NullObject
           /\ IF thrown # ReturnsTrue
              THEN /\ error' = ErrorText(thrown)
                   /\ isLoading' = FALSE
                   /\ step' = "input"
                   /\ flows' = flows
                   /\ last' = Ended(f, "validation", Null)
              ELSE /\ error' = Null
                   /\ isLoading' = TRUE
                   /\ step' = "signing"
                   /\ flows' = Append(flows, [f EXCEPT !.build = 1])
                   /\ last' = NoFlow
    /\ UNCHANGED << publicKey, balanceRefreshKey, destination, amount >>

\* a catch that also notifies the parent
Catch_NotifiesParent(i, outcome, message) ==
    /\ error' = ErrorText(message)
    /\ isLoading' = FALSE
    /\ step' = "input"
    /\ flows' = Remove(flows, i)
    /\ last' = Ended(flows[i], outcome, Null)
    /\ balanceRefreshKey' = handleTransactionComplete(balanceRefreshKey)
    /\ UNCHANGED << publicKey, destination, amount, success >>

\* a catch that also clears the form
Catch_ClearsForm(i, outcome, message) ==
    /\ error' = ErrorText(message)
    /\ isLoading' = FALSE
    /\ step' = "input"
    /\ flows' = Remove(flows, i)
    /\ last' = Ended(flows[i], outcome, Null)
    /\ destination' = <<>>
    /\ amount' = <<>>
    /\ UNCHANGED << publicKey, balanceRefreshKey, success >>

\* a catch without the finally block
Catch_KeepsLoading(i, outcome, message) ==
    /\ error' = ErrorText(message)
    /\ flows' = Remove(flows, i)
    /\ last' = Ended(flows[i], outcome, Null)
    /\ UNCHANGED << publicKey, balanceRefreshKey, destination, amount, success,
                    isLoading, step >>

\* catch (err) and finally of handleSendPayment, for invocation i
Catch(i, outcome, message) ==
    /\ error' = ErrorText(message)
    /\ isLoading' = FALSE
    /\ step' = "input"
    /\ flows' = Remove(flows, i)
    /\ last' = Ended(flows[i], outcome, Null)
    /\ UNCHANGED << publicKey, balanceRefreshKey, destination, amount, success >>

\* buildPaymentTransaction resolves: signTransaction is called with the
\* envelope and, as accountToSign, the publicKey of the handler's closure
BuildResolves(i) ==
    /\ flows[i].pc = "build"
    /\ \E xdr \in Envelopes :
         flows' = [flows EXCEPT ![i].pc = "sign", ![i].sign = @ + 1,
                                ![i].transactionXDR = xdr,
                                ![i].accountToSign = flows[i].publicKey]
    /\ last' = NoFlow
    /\ UNCHANGED << publicKey, balanceRefreshKey, destination, amount,
                    isLoading, error, success, step >>

\* a rejected build that is tried once more
BuildRejects_Retries(i) ==
    /\ flows[i].pc = "build"
    /\ flows[i].build < 2
    /\ \E message \in BuildErrors :
         flows' = [flows EXCEPT ![i].build = @ + 1]
    /\ last' = NoFlow
    /\ UNCHANGED << publicKey, balanceRefreshKey, destination, amount,
                    isLoading, error, success, step >>

\* buildPaymentTransaction rejects
BuildRejects(i) ==
    /\ flows[i].pc = "build"
    /\ \E message \in BuildErrors : Catch(i, "buildFailed", message)

\* signTransaction resolves with a signed envelope: submitTransaction is called
SignResolves(i) ==
    /\ flows[i].pc = "sign"
    /\ \E signedXDR \in SignedEnvelopes :
         flows' = [flows EXCEPT ![i].pc = "submit", ![i].submit = @ + 1,
                                ![i].signedXDR = signedXDR]
    /\ step' = "submitting"
    /\ last' = NoFlow
    /\ UNCHANGED << publicKey, balanceRefreshKey, destination, amount,
                    isLoading, error, success >>

\* a missing signature that is submitted all the same
SignCancelled_Submits(i) ==
    /\ flows[i].pc = "sign"
    /\ \E signedXDR \in NoSignature :
         flows' = [flows EXCEPT ![i].pc = "submit", ![i].submit = @ + 1,
                                ![i].signedXDR = signedXDR]
    /\ step' = "submitting"
    /\ last' = NoFlow
    /\ UNCHANGED << publicKey, balanceRefreshKey, destination, amount,
                    isLoading, error, success >>

\* a cancellation that returns to the form without an error
SignCancelled_Quiet(i) ==
    /\ flows[i].pc = "sign"
    /\ \E signedXDR \in NoSignature :
         /\ isLoading' = FALSE
         /\ step' = "input"
         /\ flows' = Remove(flows, i)
         /\ last' = Ended(flows[i], "aborted", Null)
    /\ UNCHANGED << publicKey, balanceRefreshKey, destination, amount,
                    error, success >>

\* signTransaction resolves with no signature
SignCancelled(i) ==
    /\ flows[i].pc = "sign"
    /\ \E signedXDR \in NoSignature : Catch(i, "aborted", MsgSigningCancelled)

\* signTransaction rejects
SignRejects(i) ==
    /\ flows[i].pc = "sign"
    /\ \E message \in SignErrors : Catch(i, "signFailed", message)

\* a success that leaves the form filled in
SubmitResolves_KeepsForm(i) ==
    /\ flows[i].pc = "submit"
    /\ \E result \in SubmitResults \ {NullObject} :
         /\ success' = [hash |-> result.hash,
                        explorerUrl |-> getExplorerUrl(result.hash)]
         /\ last' = Ended(flows[i], "success", result.hash)
    /\ balanceRefreshKey' = handleTransactionComplete(balanceRefreshKey)
    /\ isLoading' = FALSE
    /\ step' = "input"
    /\ flows' = Remove(flows, i)
    /\ UNCHANGED << publicKey, error, destination, amount >>

\* submitTransaction resolves with a result object
SubmitResolves(i) ==
    /\ flows[i].pc = "submit"
    /\ \E result \in SubmitResults \ {NullObject} :
         /\ success' = [hash |-> result.hash,
                        explorerUrl |-> getExplorerUrl(result.hash)]
         /\ last' = Ended(flows[i], "success", result.hash)
    /\ destination' = <<>>
    /\ amount' = <<>>
    /\ balanceRefreshKey' = handleTransactionComplete(balanceRefreshKey)
    /\ isLoading' = FALSE
    /\ step' = "input"
    /\ flows' = Remove(flows, i)
    /\ UNCHANGED << publicKey, error >>

\* submitTransaction resolves with null: reading result.hash throws
SubmitResolvesNull(i) ==
    /\ flows[i].pc = "submit"
    /\ Catch(i, "submitFailed", MsgNoResult)

\* submitTransaction rejects
SubmitRejects(i) ==
    /\ flows[i].pc = "submit"
    /\ \E message \in SubmitErrors : Catch(i, "submitFailed", message)

-----------------------------------------------------------------------------

(* WalletConnect.                                                          *)

MsgConnectFailed == << "Failed to connect wallet" >>
MsgNoPublicKey == << "Could not retrieve public key from Freighter" >>
MsgSwitchNetwork ==
    << "Please switch to Stellar Testnet in Freighter settings" >>

\* what getPublicKey can resolve with: a key of the wallet or the empty string
PublicKeyResults == WalletKeys \cup {<<>>}

\* what getNetwork can resolve with
Networks == {"TESTNET", "PUBLIC"}

\* the messages of the errors Freighter's calls can reject with
ConnectErrors == {<< "User declined access" >>, <<>>}

\* a network check that accepts every network
checkNetwork_AnyNetwork(network) == network \in Networks

\* checkNetwork: the comparison with the name of the test network
checkNetwork(network) == network = "TESTNET"

\* err.message || "Failed to connect wallet"
ConnectErrorText(message) ==
    IF message = <<>> THEN MsgConnectFailed ELSE message

\* the main view is rendered: the extension was found
WalletShown == walletConnect.freighterInstalled = "true"

\* the Connect Freighter button is rendered and enabled
ConnectEnabled == WalletShown /\ publicKey = Null /\ ~ walletConnect.isLoading

\* the summary of invocation c of connectWallet ending with the given outcome
ConnectEnded(c, outcome, network) ==
    [outcome |-> outcome, silent |-> c.silent, pubKey |-> c.pubKey,
     network |-> network]

\* isConnected resolves in checkFreighterStatus
IsConnectedResolves(i) ==
    /\ connects[i].pc = "isConnected"
    /\ \E connected \in BOOLEAN :
         /\ walletConnect' =
                [walletConnect EXCEPT
                    !.freighterInstalled = IF connected THEN "true" ELSE "false"]
         /\ connects' = IF connected
                        THEN [connects EXCEPT ![i].pc = "mountIsAllowed"]
                        ELSE Remove(connects, i)
    /\ lastConnect' = NoConnect
    /\ UNCHANGED << paymentVars, prefilledDestination, balanceVars >>

\* isAllowed resolves in checkFreighterStatus: connectWallet(true) starts if
\* the site is allowed
MountIsAllowedResolves(i) ==
    /\ connects[i].pc = "mountIsAllowed"
    /\ \E allowed \in BOOLEAN :
         IF allowed
         THEN /\ walletConnect' = [walletConnect EXCEPT !.isLoading = TRUE,
                                                        !.error = Null]
              /\ connects' = [connects EXCEPT ![i].pc = "isAllowed"]
         ELSE /\ walletConnect' = walletConnect
              /\ connects' = Remove(connects, i)
    /\ lastConnect' = NoConnect
    /\ UNCHANGED << paymentVars, prefilledDestination, balanceVars >>

\* isConnected or isAllowed rejects in checkFreighterStatus
CheckFreighterStatusRejects(i) ==
    /\ connects[i].pc \in {"isConnected", "mountIsAllowed"}
    /\ walletConnect' = [walletConnect EXCEPT !.freighterInstalled = "false"]
    /\ connects' = Remove(connects, i)
    /\ lastConnect' = NoConnect
    /\ UNCHANGED << paymentVars, prefilledDestination, balanceVars >>

\* connectWallet(false), the Connect Freighter button
connectWallet ==
    /\ ConnectEnabled
    /\ walletConnect' = [walletConnect EXCEPT !.isLoading = TRUE,
                                               !.error = Null]
    /\ connects' = Append(connects, [pc |-> "isAllowed", silent |-> FALSE,
                                     pubKey |-> Null])
    /\ lastConnect' = NoConnect
    /\ UNCHANGED << paymentVars, prefilledDestination, balanceVars >>

\* the catch and the finally block of connectWallet
ConnectCatch(i, message) ==
    /\ walletConnect' =
           [walletConnect EXCEPT
               !.error = IF connects[i].silent THEN @
                         ELSE ConnectErrorText(message),
               !.isLoading = FALSE]
    /\ connects' = Remove(connects, i)
    /\ lastConnect' = ConnectEnded(connects[i], "failed", "none")
    /\ UNCHANGED << paymentVars, prefilledDestination, balanceVars >>

\* isAllowed resolves in connectWallet: setAllowed is called if the site is
\* not allowed yet, getPublicKey otherwise
IsAllowedResolves(i) ==
    /\ connects[i].pc = "isAllowed"
    /\ \E allowed \in BOOLEAN :
         connects' = [connects EXCEPT
                         ![i].pc = IF allowed THEN "getPublicKey"
                                   ELSE "setAllowed"]
    /\ lastConnect' = NoConnect
    /\ UNCHANGED << walletConnect, paymentVars, prefilledDestination,
                    balanceVars >>

\* setAllowed resolves: its result is not looked at
SetAllowedResolves(i) ==
    /\ connects[i].pc = "setAllowed"
    /\ connects' = [connects EXCEPT ![i].pc = "getPublicKey"]
    /\ lastConnect' = NoConnect
    /\ UNCHANGED << walletConnect, paymentVars, prefilledDestination,
                    balanceVars >>

\* getPublicKey resolves with a key: checkNetwork calls getNetwork
GetPublicKeyResolves(i) ==
    /\ connects[i].pc = "getPublicKey"
    /\ \E pubKey \in PublicKeyResults \ {<<>>} :
         connects' = [connects EXCEPT ![i].pc = "getNetwork",
                                      ![i].pubKey = pubKey]
    /\ lastConnect' = NoConnect
    /\ UNCHANGED << walletConnect, paymentVars, prefilledDestination,
                    balanceVars >>

\* getPublicKey resolves with the empty string: connectWallet throws
GetPublicKeyResolvesEmpty(i) ==
    /\ connects[i].pc = "getPublicKey"
    /\ ConnectCatch(i, MsgNoPublicKey)

\* isAllowed, setAllowed or getPublicKey rejects in connectWallet
ConnectRejects(i) ==
    /\ connects[i].pc \in {"isAllowed", "setAllowed", "getPublicKey"}
    /\ \E message \in ConnectErrors : ConnectCatch(i, message)

\* connectWallet after checkNetwork returned false
WrongNetwork(i, outcome, network) ==
    /\ walletConnect' =
           [walletConnect EXCEPT
               !.networkCorrect = IF network \in Networks
                                  THEN checkNetwork(network) ELSE @,
               !.error = MsgSwitchNetwork,
               !.isLoading = FALSE]
    /\ connects' = Remove(connects, i)
    /\ lastConnect' = ConnectEnded(connects[i], outcome, network)
    /\ UNCHANGED << paymentVars, prefilledDestination, balanceVars >>

\* getNetwork resolves: onConnect is called on the test network
GetNetworkResolves(i) ==
    /\ connects[i].pc = "getNetwork"
    /\ \E network \in Networks :
         IF checkNetwork(network)
         THEN /\ walletConnect' = [walletConnect EXCEPT
                                       !.networkCorrect = TRUE,
                                       !.isLoading = FALSE]
              /\ connects' = Remove(connects, i)
              /\ lastConnect' = ConnectEnded(connects[i], "connected", network)
              /\ handleConnect(connects[i].pubKey)
              /\ UNCHANGED << prefilledDestination, balanceVars >>
         ELSE WrongNetwork(i, "wrongNetwork", network)

\* getNetwork rejects: checkNetwork catches the error and returns false
GetNetworkRejects(i) ==
    /\ connects[i].pc = "getNetwork"
    /\ WrongNetwork(i, "networkFailed", "none")

\* disconnectWallet, the Disconnect button
disconnectWallet ==
    /\ WalletShown
    /\ handleDisconnect
    /\ lastConnect' = NoConnect
    /\ UNCHANGED << walletConnect, connects, prefilledDestination,
                    balanceVars >>

-----------------------------------------------------------------------------
(* Balance.                                                                *)

MsgFetchFailed == << "Failed to fetch balance" >>

\* the messages of the errors getBalance can reject with
FetchErrors == {<< "Account not found" >>, <<>>}

\* what getBalance resolves with: the balance of the account asked for
getBalance(account) == << "balance of" >> \o account

\* err.message || "Failed to fetch balance"
FetchErrorText(message) == IF message = <<>> THEN MsgFetchFailed ELSE message

\* the state of a Balance that was just mounted
BalanceMounted == [balance |-> Null, isLoading |-> FALSE, error |-> Null]

\* the Refresh button is rendered and enabled
RefreshEnabled == publicKey # Null /\ ~ balanceCard.isLoading

\* fetchBalance called with the given key in its closure, up to its await
fetchBalance(card, pending, key) ==
    IF key = Null
    THEN /\ balanceCard' = card
         /\ fetches' = pending
    ELSE /\ balanceCard' = [card EXCEPT !.isLoading = TRUE, !.error = Null]
         /\ fetches' = Append(pending, [publicKey |-> key])

\* the effect of Balance, run when publicKey has changed to the given key
BalanceEffect(key) ==
    IF key # Null
    THEN fetchBalance(balanceCard, fetches, key)
    ELSE /\ balanceCard' = [balanceCard EXCEPT !.balance = Null,
                                               !.error = Null]
         /\ fetches' = fetches

\* Index.handleConnect, followed by the effect of Balance if the key changed
BalanceConnect(pubKey) ==
    /\ publicKey = Null
    /\ Len(fetches) < MaxFetches
    /\ handleConnect(pubKey)
    /\ BalanceEffect(pubKey)
    /\ UNCHANGED << prefilledDestination, walletVars >>

\* Index.handleDisconnect, followed by the effect of Balance
BalanceDisconnect ==
    /\ handleDisconnect
    /\ BalanceEffect(Null)
    /\ UNCHANGED << prefilledDestination, walletVars >>

\* the Refresh button
RefreshBalance ==
    /\ RefreshEnabled
    /\ Len(fetches) < MaxFetches
    /\ fetchBalance(balanceCard, fetches, publicKey)
    /\ UNCHANGED << paymentVars, prefilledDestination, walletVars >>

\* getBalance resolves: the balance is stored and loading ends
GetBalanceResolves(i) ==
    /\ balanceCard' = [balanceCard EXCEPT
                          !.balance = getBalance(fetches[i].publicKey),
                          !.isLoading = FALSE]
    /\ fetches' = Remove(fetches, i)
    /\ UNCHANGED << paymentVars, prefilledDestination, walletVars >>

\* getBalance rejects: the error is stored, the balance is cleared and
\* loading ends
GetBalanceRejects(i) ==
    /\ \E message \in FetchErrors :
         balanceCard' = [balanceCard EXCEPT
                            !.error = FetchErrorText(message),
                            !.balance = Null,
                            !.isLoading = FALSE]
    /\ fetches' = Remove(fetches, i)
    /\ UNCHANGED << paymentVars, prefilledDestination, walletVars >>

\* Index.handleTransactionComplete as Balance sees it: the key of Balance
\* changes, so a new Balance is mounted and its effect runs; the requests of
\* the Balance that was unmounted no longer reach any state
BalanceRemounted ==
    /\ balanceRefreshKey < MaxPayments
    /\ balanceRefreshKey' = handleTransactionComplete(balanceRefreshKey)
    /\ fetchBalance(BalanceMounted, <<>>, publicKey)
    /\ UNCHANGED << publicKey, destination, amount, isLoading, error, success,
                    step, flows, last, prefilledDestination, walletVars >>

-----------------------------------------------------------------------------
\* a step of Index or SendPayment leaves the other components as they are
OnlyPayment == UNCHANGED << prefilledDestination, walletVars, balanceVars >>

\* the page as the payment form sees it. WalletConnect offers Connect only
\* while no key is set, and Index passes no prefilledDestination.
Next ==
    \/ (\E k \in WalletKeys : publicKey = Null /\ handleConnect(k))
         /\ OnlyPayment
    \/ handleDisconnect /\ OnlyPayment
    \/ (\E d \in DestinationInputs : setDestination(d)) /\ OnlyPayment
    \/ (\E a \in AmountInputs : setAmount(a)) /\ OnlyPayment
    \/ handleSendPayment /\ OnlyPayment
    \/ (\E i \in 1..Len(flows) : BuildResolves(i)) /\ OnlyPayment
    \/ (\E i \in 1..Len(flows) : BuildRejects(i)) /\ OnlyPayment
    \/ (\E i \in 1..Len(flows) : SignResolves(i)) /\ OnlyPayment
    \/ (\E i \in 1..Len(flows) : SignCancelled(i)) /\ OnlyPayment
    \/ (\E i \in 1..Len(flows) : SignRejects(i)) /\ OnlyPayment
    \/ (\E i \in 1..Len(flows) : SubmitResolves(i)) /\ OnlyPayment
    \/ (\E i \in 1..Len(flows) : SubmitResolvesNull(i)) /\ OnlyPayment
    \/ (\E i \in 1..Len(flows) : SubmitRejects(i)) /\ OnlyPayment

Spec == Init /\ [][Next]_vars

\* some pending call of a collaborator returns or fails
CollaboratorReturns ==
    /\ \E i \in 1..Len(flows) :
        \/ BuildResolves(i) \/ BuildRejects(i)
        \/ SignResolves(i) \/ SignCancelled(i) \/ SignRejects(i)
        \/ SubmitResolves(i) \/ SubmitResolvesNull(i) \/ SubmitRejects(i)
    /\ OnlyPayment

\* the behaviours in which no call of a collaborator stays pending forever
FairSpec == Spec /\ WF_vars(CollaboratorReturns)

\* the addresses a parent can pass as prefilledDestination
PrefilledDestinations == {Undefined, <<>>} \cup WalletKeys

\* the parent of SendPayment passes another prefilledDestination: the effect
\* of SendPayment copies a non-empty one into the destination field
prefilledDestinationChanges(value) ==
    /\ value # prefilledDestination
    /\ prefilledDestination' = value
    /\ destination' = IF value \in {Undefined, <<>>} THEN destination ELSE value
    /\ last' = NoFlow
    /\ UNCHANGED << publicKey, balanceRefreshKey, amount, isLoading, error,
                    success, step, flows, walletVars, balanceVars >>

\* SendPayment under a parent that passes prefilledDestination
PrefilledNext ==
    \/ Next
    \/ \E value \in PrefilledDestinations : prefilledDestinationChanges(value)

PrefilledSpec == Init /\ [][PrefilledNext]_vars

\* WalletConnect and Index
WalletNext ==
    \/ \E i \in 1..Len(connects) : IsConnectedResolves(i)
    \/ \E i \in 1..Len(connects) : MountIsAllowedResolves(i)
    \/ \E i \in 1..Len(connects) : CheckFreighterStatusRejects(i)
    \/ connectWallet
    \/ \E i \in 1..Len(connects) : IsAllowedResolves(i)
    \/ \E i \in 1..Len(connects) : SetAllowedResolves(i)
    \/ \E i \in 1..Len(connects) : GetPublicKeyResolves(i)
    \/ \E i \in 1..Len(connects) : GetPublicKeyResolvesEmpty(i)
    \/ \E i \in 1..Len(connects) : ConnectRejects(i)
    \/ \E i \in 1..Len(connects) : GetNetworkResolves(i)
    \/ \E i \in 1..Len(connects) : GetNetworkRejects(i)
    \/ disconnectWallet

WalletSpec == Init /\ [][WalletNext]_vars

\* Balance and Index
BalanceNext ==
    \/ \E k \in WalletKeys : BalanceConnect(k)
    \/ BalanceDisconnect
    \/ RefreshBalance
    \/ \E i \in 1..Len(fetches) : GetBalanceResolves(i)
    \/ \E i \in 1..Len(fetches) : GetBalanceRejects(i)
    \/ BalanceRemounted

BalanceSpec == Init /\ [][BalanceNext]_vars

-----------------------------------------------------------------------------
(* Properties of the payment flow.                                         *)

\* an invocation of handleSendPayment ended in the step just taken
FlowEnded == last.outcome # "none"

NoNetworkCall(f) == f.build = 0 /\ f.sign = 0 /\ f.submit = 0

\* C1: a flow whose trimmed destination is the connected publicKey ends at
\* validation, with an error and without any call of
\* buildPaymentTransaction, signTransaction or submitTransaction; no such
\* flow is ever suspended at one of these calls.
C1_SelfSendStopsAtValidation ==
    /\ \A i \in 1..Len(flows) : Trim(flows[i].destination) # flows[i].publicKey
    /\ (FlowEnded /\ Trim(last.destination) = last.publicKey) =>
         /\ last.outcome = "validation"
         /\ NoNetworkCall(last)
         /\ error # Null

C1_Witness ==
    /\ last.outcome = "validation"
    /\ Trim(last.destination) = last.publicKey
    /\ last.destination # last.publicKey
    /\ error = MsgSelfSend

\* C2: when signTransaction returns no signature, the step that ends the
\* flow has made no call of submitTransaction, leaves balanceRefreshKey
\* alone (onTransactionComplete is not called), and leaves destination and
\* amount at the values the flow was submitted with.
C2_AbortKeepsForm ==
    [][ last'.outcome = "aborted" =>
          /\ last'.submit = 0
          /\ balanceRefreshKey' = balanceRefreshKey
          /\ destination' = last'.destination
          /\ amount' = last'.amount
          /\ << destination', amount' >> = << destination, amount >> ]_vars

C2_Witness ==
    /\ last.outcome = "aborted"
    /\ last.sign = 1
    /\ destination = last.destination
    /\ amount = last.amount
    /\ amount # <<>>

\* C3 as stated: when signTransaction returns no signature the flow ends
\* with error = null, so that no error banner is shown.
C3_AbortLeavesNoError ==
    last.outcome = "aborted" => error = Null

\* C3 amended: when signTransaction returns no signature the flow returns
\* to the input step with isLoading false and success null, and error holds
\* the message "Transaction signing was cancelled" (the error banner shows).
C3_AbortShowsCancelledMessage ==
    last.outcome = "aborted" =>
        /\ error = MsgSigningCancelled
        /\ success = NullObject
        /\ step = "input"
        /\ isLoading = FALSE

C3_Witness ==
    /\ last.outcome = "aborted"
    /\ error = MsgSigningCancelled
    /\ step = "input"

\* C4: when submitTransaction returns a result with a transaction hash, the
\* step that ends the flow sets success to that hash, leaves error null,
\* empties destination and amount, and increments balanceRefreshKey.
C4_SuccessClearsAndNotifies ==
    [][ (last'.outcome = "success" /\ last'.hash \in Hashes) =>
          /\ success' # NullObject
          /\ success'.hash = last'.hash
          /\ error' = Null
          /\ destination' = <<>>
          /\ amount' = <<>>
          /\ balanceRefreshKey' = balanceRefreshKey + 1 ]_vars

C4_Witness ==
    /\ last.outcome = "success"
    /\ last.hash \in Hashes
    /\ success # NullObject
    /\ last.destination # <<>>
    /\ destination = <<>>
    /\ balanceRefreshKey > 0

\* C5: at most one invocation of handleSendPayment is in flight, and while
\* one is, isLoading is true and the submit control is disabled.
C5_SingleFlowInFlight ==
    /\ Len(flows) <= 1
    /\ flows # <<>> => (isLoading /\ ~ SubmitEnabled)

C5_Witness ==
    /\ Len(flows) = 1
    /\ flows[1].pc = "submit"
    /\ isLoading
    /\ destination # <<>>
    /\ amount # <<>>
    /\ publicKey # Null

\* C6: in one invocation each of buildPaymentTransaction, signTransaction
\* and submitTransaction is called at most once: a suspended invocation has
\* made exactly one call of each collaborator up to the one it waits for,
\* and an ended one at most one of each.
C6_EachCollaboratorAtMostOnce ==
    /\ \A i \in 1..Len(flows) :
         LET f == flows[i]
         IN  /\ f.build = 1
             /\ f.sign = (IF f.pc \in {"sign", "submit"} THEN 1 ELSE 0)
             /\ f.submit = (IF f.pc = "submit" THEN 1 ELSE 0)
    /\ last.build <= 1 /\ last.sign <= 1 /\ last.submit <= 1
    /\ last.outcome = "success" =>
         (last.build = 1 /\ last.sign = 1 /\ last.submit = 1)

C6_Witness ==
    /\ last.outcome = "buildFailed"
    /\ last.build = 1
    /\ last.sign = 0
    /\ last.submit = 0

\* C7: a step of a flow that does not end it in success leaves destination
\* and amount unchanged, and a flow that ends otherwise than in success
\* ends with both at the values it was submitted with.
C7_OnlySuccessClearsForm ==
    [][ /\ ((flows' # flows \/ last'.outcome # "none") /\ last'.outcome # "success")
            => << destination', amount' >> = << destination, amount >>
        /\ last'.outcome \notin {"none", "success"}
            => << destination', amount' >> = << last'.destination, last'.amount >>
      ]_vars

C7_Witness ==
    /\ last.outcome = "submitFailed"
    /\ last.submit = 1
    /\ destination = last.destination
    /\ amount = last.amount
    /\ destination # <<>>

\* the characters of s before its exponent part
RECURSIVE Mantissa(_)
Mantissa(s) ==
    IF s = <<>> \/ Head(s) \in {"e", "E"} THEN <<>>
    ELSE <<Head(s)>> \o Mantissa(Tail(s))

\* s is written as zero or as a negative number
ZeroOrNegativeAmount(s) ==
    /\ s # <<>>
    /\ \E i \in 1..Len(s) : IsDigit(s[i])
    /\ \/ Head(s) = "-"
       \/ \A i \in 1..Len(Mantissa(s)) :
            IsDigit(Mantissa(s)[i]) => Mantissa(s)[i] = "0"

\* C8: a flow whose amount is "0" or negative ends at validation, with an
\* error and without any call of buildPaymentTransaction, signTransaction
\* or submitTransaction; no such flow is ever suspended at one of them.
C8_ZeroOrNegativeAmountRejected ==
    /\ \A i \in 1..Len(flows) : ~ ZeroOrNegativeAmount(flows[i].amount)
    /\ (FlowEnded /\ ZeroOrNegativeAmount(last.amount)) =>
         /\ last.outcome = "validation"
         /\ NoNetworkCall(last)
         /\ error # Null

C8_Witness ==
    /\ last.outcome = "validation"
    /\ ZeroOrNegativeAmount(last.amount)
    /\ Head(last.amount) = "-"
    /\ error = MsgNotPositive

\* the exact decimal value of s is positive and below 10^-7
PositiveBelowMinimum(s) ==
    LET n == parseFloat(s)
    IN  /\ n.kind = "num"
        /\ ~ n.neg
        /\ n.digits # <<>>
        /\ n.exp <= MinHalfwayExp

\* the destination rules of validateInputs pass
DestinationAccepted(dest, pk) ==
    /\ isValidPublicKey(Trim(dest))
    /\ Trim(dest) # pk

\* C9 as stated: a flow whose amount is positive and below 0.0000001 ends
\* at validation without a call of buildPaymentTransaction, and (its
\* destination being acceptable) with the below-minimum message.
C9_BelowMinimumRejected ==
    /\ \A i \in 1..Len(flows) : ~ PositiveBelowMinimum(flows[i].amount)
    /\ (FlowEnded /\ PositiveBelowMinimum(last.amount)) =>
         /\ last.outcome = "validation"
         /\ last.build = 0
         /\ DestinationAccepted(last.destination, last.publicKey)
              => error = MsgBelowMinimum

\* C10: a flow whose destination is empty after trimming, or is rejected by
\* isValidPublicKey, ends at validation with the message of the violated
\* rule and without any call of buildPaymentTransaction, signTransaction or
\* submitTransaction; no such flow is ever suspended at one of them.
C10_BadDestinationRejected ==
    /\ \A i \in 1..Len(flows) : isValidPublicKey(Trim(flows[i].destination))
    /\ (FlowEnded /\ ~ isValidPublicKey(Trim(last.destination))) =>
         /\ last.outcome = "validation"
         /\ NoNetworkCall(last)
         /\ error = (IF Trim(last.destination) = <<>>
                     THEN MsgDestinationRequired ELSE MsgInvalidAddress)

C10_Witness ==
    /\ last.outcome = "validation"
    /\ Trim(last.destination) # <<>>
    /\ ~ isValidPublicKey(Trim(last.destination))
    /\ error = MsgInvalidAddress

\* the decimal n has no more than k digits after the decimal point
FractionalDigitsAtMost(n, k) ==
    n.digits = <<>> \/ Len(n.digits) - n.exp <= k

\* s denotes a strictly positive decimal of at most 7 fractional digits
PositiveStroopAmount(s) ==
    LET n == parseFloat(s)
    IN  /\ n.kind = "num"
        /\ ~ n.neg
        /\ n.digits # <<>>
        /\ FractionalDigitsAtMost(n, 7)

\* C11 as stated: buildPaymentTransaction is called only with a
\* destination that isValidPublicKey accepts and that differs from the
\* source, and with an amount that is a strictly positive decimal of at most
\* 7 fractional digits.
C11_BuildPreconditionsMet ==
    \A i \in 1..Len(flows) :
        LET source == flows[i].buildArgs[1]
            dest   == flows[i].buildArgs[2]
            amt    == flows[i].buildArgs[3]
        IN  /\ isValidPublicKey(dest)
            /\ dest # source
            /\ PositiveStroopAmount(amt)

\* C12: the collaborators are called in the order build, sign, submit: an
\* invocation waits for signTransaction only with the envelope that
\* buildPaymentTransaction returned, waits for submitTransaction only with
\* a non-empty signed envelope that signTransaction returned, and an ended
\* invocation has called no collaborator without the one before it.
C12_BuildThenSignThenSubmit ==
    /\ \A i \in 1..Len(flows) :
         LET f == flows[i]
         IN  /\ f.pc = "build" =>
                  /\ f.transactionXDR = Undefined
                  /\ f.sign = 0 /\ f.submit = 0
             /\ f.pc = "sign" =>
                  /\ f.transactionXDR \in Envelopes
                  /\ f.signedXDR = Undefined
                  /\ f.build = 1 /\ f.submit = 0
             /\ f.pc = "submit" =>
                  /\ f.transactionXDR \in Envelopes
                  /\ f.signedXDR \in SignedEnvelopes
                  /\ f.signedXDR \notin NoSignature
                  /\ f.build = 1 /\ f.sign = 1
    /\ last.submit > 0 => last.sign > 0
    /\ last.sign > 0 => last.build > 0

C12_Witness ==
    /\ Len(flows) = 1
    /\ flows[1].pc = "submit"
    /\ flows[1].transactionXDR \in Envelopes
    /\ flows[1].signedXDR \in SignedEnvelopes
    /\ step = "submitting"

\* C13: provided every call of a collaborator eventually returns or fails,
\* every invocation of handleSendPayment eventually ends, and whenever none
\* is in flight the form is editable again: step = "input" and isLoading is
\* false.
C13_FlowReturnsToInput ==
    /\ [](flows = <<>> => (step = "input" /\ isLoading = FALSE))
    /\ (flows # <<>>) ~> (flows = <<>>)

C13_Witness ==
    /\ last.outcome = "signFailed"
    /\ flows = <<>>
    /\ step = "input"
    /\ isLoading = FALSE

\* C14: balanceRefreshKey changes only in a step that ends a flow in
\* success, and every such step increments it by exactly one; a flow that
\* ends otherwise leaves it alone.
C14_RefreshOncePerSuccess ==
    [][ /\ balanceRefreshKey' # balanceRefreshKey => last'.outcome = "success"
        /\ last'.outcome = "success" =>
             balanceRefreshKey' = balanceRefreshKey + 1 ]_vars

C14_Witness ==
    /\ last.outcome = "success"
    /\ balanceRefreshKey = 2
    /\ flows = <<>>

\* error holds a text that the error banner displays
ErrorShown == error \notin {Null, Undefined, <<>>}

\* C15: when buildPaymentTransaction fails the flow ends with an error
\* message displayed, after exactly one call of buildPaymentTransaction and
\* no call of signTransaction or submitTransaction, and nothing is left in
\* flight to try again.
C15_BuildFailureEndsFlow ==
    last.outcome = "buildFailed" =>
        /\ ErrorShown
        /\ error \in (BuildErrors \ {<<>>}) \cup {MsgFallback}
        /\ last.build = 1
        /\ last.sign = 0
        /\ last.submit = 0
        /\ flows = <<>>

C15_Witness ==
    /\ last.outcome = "buildFailed"
    /\ error = MsgFallback
    /\ last.build = 1
    /\ flows = <<>>

\* C16: when submitTransaction fails the flow ends with an error message
\* displayed and with success null, after one call of submitTransaction,
\* and the form is not cleared.
C16_SubmitFailureIsNotSuccess ==
    last.outcome = "submitFailed" =>
        /\ ErrorShown
        /\ success = NullObject
        /\ last.submit = 1
        /\ destination # <<>>
        /\ amount # <<>>

C16_Witness ==
    /\ last.outcome = "submitFailed"
    /\ error \in SubmitErrors
    /\ success = NullObject
    /\ balanceRefreshKey = 1

\* C17 as stated: success is non-null only with the transaction hash of a
\* submission result, and a flow ends in success (form cleared, refresh
\* notified) only for a result that contains a hash.
C17_SuccessOnlyWithHash ==
    /\ success # NullObject => success.hash \in Hashes
    /\ last.outcome = "success" => last.hash \in Hashes

\* C18: error and success are never both non-null, and while isLoading is
\* true both are null.
C18_OneStatusAtATime ==
    /\ ~ (error # Null /\ success # NullObject)
    /\ isLoading => (error = Null /\ success = NullObject)

C18_Witness ==
    /\ isLoading
    /\ Len(flows) = 1
    /\ flows[1].pc = "sign"
    /\ error = Null
    /\ success = NullObject
    /\ balanceRefreshKey = 1

\* the validation rules in their fixed order, each with its message
RuleMessages ==
    << MsgDestinationRequired, MsgInvalidAddress, MsgSelfSend,
       MsgAmountRequired, MsgNotPositive, MsgBelowMinimum >>

RuleViolated(k, dest, amt, pk) ==
    CASE k = 1 -> Trim(dest) = <<>>
      [] k = 2 -> ~ isValidPublicKey(Trim(dest))
      [] k = 3 -> Trim(dest) = pk
      [] k = 4 -> Trim(amt) = <<>>
      [] k = 5 -> isNaN(parseFloat(amt)) \/ NumberLeqZero(parseFloat(amt))
      [] k = 6 -> NumberLtMinimum(parseFloat(amt))

ViolatedRules(dest, amt, pk) ==
    { k \in 1..Len(RuleMessages) : RuleViolated(k, dest, amt, pk) }

\* C19: the six rules have six different messages, and a flow that ends at
\* validation shows the message of the first rule, in the fixed order, that
\* its inputs violate, whatever other rules they violate as well.
C19_FirstViolatedRuleReported ==
    /\ Cardinality({ RuleMessages[k] : k \in 1..Len(RuleMessages) }) = 6
    /\ last.outcome = "validation" =>
         LET violated == ViolatedRules(last.destination, last.amount,
                                       last.publicKey)
         IN  /\ violated # {}
             /\ \E k \in violated :
                  /\ \A j \in violated : k <= j
                  /\ error = RuleMessages[k]

C19_Witness ==
    /\ last.outcome = "validation"
    /\ {2, 5, 6} \subseteq
         ViolatedRules(last.destination, last.amount, last.publicKey)
    /\ Trim(last.destination) # <<>>
    /\ error = MsgInvalidAddress

\* C20 as stated: while buildPaymentTransaction is pending the flow is not
\* in the signing step and does not show "Waiting for signature...".
C20_SigningOnlyAfterBuild ==
    \A i \in 1..Len(flows) :
        flows[i].pc = "build" =>
            /\ step # "signing"
            /\ getStepLabel(step) # "Waiting for signature..."

\* C20 amended: there is no step for the build.  step is "signing", with
\* the label "Waiting for signature...", from the moment validation passes,
\* while buildPaymentTransaction and then signTransaction are pending; it is
\* "submitting" exactly while submitTransaction is pending, and "input"
\* when no invocation is in flight.
C20_SigningStepCoversBuild ==
    /\ step \in {"input", "signing", "submitting"}
    /\ flows = <<>> => step = "input"
    /\ \A i \in 1..Len(flows) :
         /\ flows[i].pc \in {"build", "sign"} =>
              /\ step = "signing"
              /\ getStepLabel(step) = "Waiting for signature..."
         /\ flows[i].pc = "submit" =>
              /\ step = "submitting"
              /\ getStepLabel(step) = "Submitting transaction..."

C20_Witness ==
    /\ Len(flows) = 1
    /\ flows[1].pc = "build"
    /\ flows[1].transactionXDR = Undefined
    /\ step = "signing"
    /\ isLoading

-----------------------------------------------------------------------------
(* Properties of WalletConnect.                                            *)

\* C21: connectWallet calls onConnect, which sets publicKey, only with a
\* non-empty public key it retrieved and only when getNetwork reported
\* "TESTNET"; a step of WalletConnect that is not this call sets no key, and
\* an invocation that ends because getNetwork failed or reported another
\* network, or because a call before it failed, leaves publicKey unchanged.
C21_ConnectOnlyOnTestnet ==
    [][ /\ lastConnect'.outcome = "connected"
            => /\ lastConnect'.pubKey \notin {Null, <<>>}
               /\ lastConnect'.network = "TESTNET"
               /\ publicKey' = lastConnect'.pubKey
        /\ lastConnect'.outcome # "connected"
            => publicKey' \in {publicKey, Null}
        /\ lastConnect'.outcome \in {"wrongNetwork", "networkFailed", "failed"}
            => publicKey' = publicKey ]_vars

\* connectWallet, having retrieved a key, ended on another network without
\* connecting
C21_Witness ==
    /\ lastConnect.outcome = "wrongNetwork"
    /\ lastConnect.pubKey \in WalletKeys
    /\ lastConnect.network = "PUBLIC"
    /\ publicKey = Null

\* C22: the step that ends an invocation of connectWallet made with
\* silent = true leaves the error message as it was, whichever step failed.
C22_SilentConnectSetsNoError ==
    [][ (lastConnect'.outcome # "none" /\ lastConnect'.silent)
            => walletConnect'.error = walletConnect.error ]_vars

-----------------------------------------------------------------------------
(* Properties of a flow across changes of its surroundings.                *)

\* C23: every invocation in flight has called buildPaymentTransaction with
\* the publicKey and the trimmed destination and amount that validateInputs
\* accepted when it started, has asked signTransaction to sign for that same
\* publicKey, and the destination and amount fields still hold the values it
\* validated.
C23_FlowKeepsValidatedInputs ==
    \A i \in 1..Len(flows) :
        LET f == flows[i]
        IN  /\ validateInputs(f.destination, f.amount, f.publicKey)
                 = ReturnsTrue
            /\ f.buildArgs
                 = << f.publicKey, Trim(f.destination), Trim(f.amount) >>
            /\ f.pc # "build" => f.accountToSign = f.publicKey
            /\ destination = f.destination
            /\ amount = f.amount

\* the step calls signTransaction or submitTransaction in some invocation
SignOrSubmitCalled ==
    /\ Len(flows') = Len(flows)
    /\ \E i \in 1..Len(flows) :
         \/ flows'[i].sign > flows[i].sign
         \/ flows'[i].submit > flows[i].submit

\* C24: once handleDisconnect has set publicKey to null, no step calls
\* signTransaction or submitTransaction for an invocation still in flight,
\* and none bumps balanceRefreshKey.
C24_NoSigningAfterDisconnect ==
    [][ publicKey = Null
            => /\ ~ SignOrSubmitCalled
               /\ balanceRefreshKey' = balanceRefreshKey ]_vars

-----------------------------------------------------------------------------
(* Properties of Balance.                                                  *)

\* C25: isLoading is true while a getBalance request is pending, and once
\* none is pending and a key is connected, the state of Balance is the
\* result of one fetch for that key: its balance if there is a balance, and
\* not a balance together with an error.
C25_BalanceReflectsLatestFetch ==
    /\ fetches # <<>> => balanceCard.isLoading
    /\ (fetches = <<>> /\ publicKey # Null) =>
         /\ balanceCard.balance \in {Null, getBalance(publicKey)}
         /\ ~ (balanceCard.balance # Null /\ balanceCard.error # Null)

====
